---- MODULE Spec2Model ----
(***************************************************************************)
(* waked: the wake-triggered process supervisor of src/main.go (the second *)
(* listing of the file, lines 190-546).                                    *)
(*                                                                         *)
(*   execCtl.onEvent   the Wake Dispatcher, one invocation per handler     *)
(*                     thread, stepped statement by statement under o.mu   *)
(*   execRetry         the retry loop of one Supervised Run                *)
(*   execOnce          one attempt: gate, timeout scope, exe.Run()         *)
(*   checkIfLocked     the Lock-State Oracle, an operator over the two     *)
(*                     helpers' results                                    *)
(*   exeLogger         the Output Capture (pipe, bufio.Scanner loop)       *)
(***************************************************************************)
EXTENDS Integers, Sequences, FiniteSets, TLC

VARIABLES
    mu,              \* execCtl.mu: 0 when free, else the handler holding it
    stopChildrenFn,  \* execCtl.stopChildrenFn: 0 for nil, else the generation it cancels
    nGen,            \* generations created so far (context.WithCancelCause calls)
    cancelled,       \* cancelled[g]: generation g's cancel function was called
    budget,          \* resume events the environment will still deliver
    handler,         \* handler[h]: one onEvent invocation (position and locals)
    onDisk,          \* onDisk[f]: file f is in the executables directory
    run,             \* run[<<g, f>>]: the execRetry goroutine of generation g for file f
    cap              \* one exeLogger of one child invocation, with its writer side

vars == <<mu, stopChildrenFn, nGen, cancelled, budget, handler, onDisk, run, cap>>

supVars == <<mu, stopChildrenFn, nGen, cancelled, budget, handler, onDisk, run>>

----------------------------------------------------------------------------
(* Bounds *)

MaxRuns == 2

NumHandlers == 2

----------------------------------------------------------------------------
(* Names. A file name is the sequence of its parts, so that the marker test *)
(* is a search in the name and not a flag set by hand.                      *)

needsUnlockStr == "-on-unlock"

FileA == <<"a">>

FileB == <<"b", "-on-unlock">>

SubDir == <<"d">>

Files == {FileA, FileB}

\* os.ReadDir returns the entries sorted by file name.
DirOrder == <<FileA, FileB, SubDir>>

IsDir(e) == e = SubDir

\* strings.Contains / bytes.Contains, over parts.
Contains(s, part) == \E i \in DOMAIN s : s[i] = part

\* execOnce's test of the base name.
NeedsUnlock(exePath) == Contains(exePath, needsUnlockStr)

Handlers == 1..NumHandlers

Gens == 1..MaxRuns

RunIds == Gens \X Files

GenOf(r) == r[1]

PathOf(r) == r[2]

----------------------------------------------------------------------------
(* The Lock-State Oracle *)

coreGraphicsParam == "CGSSessionScreenIsLocked"

IsSpace(c) == c \in {" ", "\n", "\t"}

RECURSIVE TrimLeft(_)
TrimLeft(s) == IF s # <<>> /\ IsSpace(Head(s)) THEN TrimLeft(Tail(s)) ELSE s

RECURSIVE TrimRight(_)
TrimRight(s) ==
    IF s # <<>> /\ IsSpace(s[Len(s)]) THEN TrimRight(SubSeq(s, 1, Len(s) - 1)) ELSE s

\* A comparison of the output as plutil printed it.
TrimSpaceNothing(s) == s

\* bytes.TrimSpace
TrimSpace(s) == TrimRight(TrimLeft(s))

IoregOutputs == { <<"IOConsoleUsers">>, <<"IOConsoleUsers", coreGraphicsParam>> }

PlutilOutputs == { <<"true">>, <<"true", "\n">>, <<"false", "\n">>, <<" ", "true">>, <<>> }

\* What the two helper commands can do: each fails or succeeds with an output.
HelperResults ==
    [ioregOk : BOOLEAN, ioregOutput : IoregOutputs,
     plutilOk : BOOLEAN, plutilOutput : PlutilOutputs]

\* checkIfLocked: the pair (bool, error) it returns and the commands it ran.
checkIfLocked(hr) ==
    IF ~hr.ioregOk
    THEN [isLocked |-> FALSE, err |-> TRUE, ranPlutil |-> FALSE]
    ELSE IF ~Contains(hr.ioregOutput, coreGraphicsParam)
    THEN [isLocked |-> FALSE, err |-> FALSE, ranPlutil |-> FALSE]
    ELSE IF ~hr.plutilOk
    THEN [isLocked |-> FALSE, err |-> TRUE, ranPlutil |-> TRUE]
    ELSE [isLocked |-> TrimSpace(hr.plutilOutput) = <<"true">>,
          err |-> FALSE, ranPlutil |-> TRUE]

----------------------------------------------------------------------------
(* Initial state *)

IdleHandler == [pc |-> "idle", infos |-> <<>>, err |-> FALSE, ctx |-> 0, idx |-> 0]

\* A run that no onEvent has started yet.
NoRun ==
    [pc |-> "none", err |-> "nil", queried |-> FALSE, isLocked |-> FALSE,
     oerr |-> FALSE, warned |-> FALSE,
     child |-> "none", stalled |-> FALSE, timedOut |-> FALSE,
     waitFor |-> 0, elapsed |-> 0, result |-> "none",
     retried |-> FALSE, exitedZero |-> FALSE]

NoCap == [xpc |-> "none"]

\* The directories a behaviour starts with: at least one executable in it.
Directories == { d \in [Files -> BOOLEAN] : \E f \in Files : d[f] }

\* The resume events of a behaviour: as many as start at most MaxRuns runs.
EventsFor(d) == MaxRuns \div Cardinality({f \in Files : d[f]})

InitSup ==
    /\ mu = 0
    /\ stopChildrenFn = 0
    /\ nGen = 0
    /\ cancelled = [g \in Gens |-> FALSE]
    /\ handler = [h \in Handlers |-> IdleHandler]
    /\ onDisk \in Directories
    /\ budget = EventsFor(onDisk)
    /\ run = [r \in RunIds |-> NoRun]

Init ==
    /\ InitSup
    /\ cap = NoCap

----------------------------------------------------------------------------
(* Cancellation scopes *)

\* The root scope o.ctx, the signal context. It is done only after a signal,
\* and then the signal goroutine's log.Fatalf ends the process: the states
\* here are those of the live process, where the root is never done.
RootScope == 0

\* A dispatcher that derives each generation's scope from the one before it.
ParentScopePrevious(g) == g - 1

\* "context.WithCancelCause(o.ctx)": the scope that generation g's derives from.
ParentScope(g) == RootScope

\* ctx.Done() of generation g's scope is closed: its cancel function was
\* called, or that of a scope it derives from (its parent's and so on up to
\* the root).
GenDone(g) ==
    LET chain[a \in {RootScope} \cup Gens] ==
            IF a = RootScope THEN {} ELSE {a} \cup chain[ParentScope(a)]
    IN \E a \in chain[g] : cancelled[a]

\* An attempt whose scope is a timeout under the root, not under the generation.
AttemptDoneTimeoutOnly(r) == run[r].timedOut

\* The per-attempt timeout scope of execOnce, nested in the generation's.
AttemptDone(r) == GenDone(GenOf(r)) \/ run[r].timedOut

----------------------------------------------------------------------------
(* execCtl.onEvent, one statement per step *)

\* The notification centre calls ctl.onEvent. Which thread makes the call is
\* immaterial: the threads are numbered in the order they are taken.
OnEventCall(h) ==
    /\ handler[h].pc = "idle"
    /\ \A h2 \in Handlers : h2 < h => handler[h2].pc # "idle"
    /\ budget > 0
    /\ budget' = budget - 1
    /\ handler' = [handler EXCEPT ![h].pc = "lock"]
    /\ UNCHANGED <<mu, stopChildrenFn, nGen, cancelled, onDisk, run, cap>>

\* A mutex that never blocks.
LockFreeAlways == TRUE

\* o.mu is unlocked.
LockFree == mu = 0

\* A dispatcher that cancels the previous generation before it lists.
AfterLockCancelFirst == "cancel"

\* The statement after o.mu.Lock(): os.ReadDir.
AfterLock == "readdir"

\* o.mu.Lock()
OnEventLock(h) ==
    /\ handler[h].pc = "lock"
    /\ LockFree
    /\ mu' = h
    /\ handler' = [handler EXCEPT ![h].pc = AfterLock]
    /\ UNCHANGED <<stopChildrenFn, nGen, cancelled, budget, onDisk, run, cap>>

\* The listing os.ReadDir returns now: the directory's entries, sorted.
Listing == SelectSeq(DirOrder, LAMBDA e : IsDir(e) \/ onDisk[e])

\* A dispatcher that goes on to the generation swap after a failed listing.
AfterReadDirIgnoringError(ok) == "cancel"

\* A dispatcher that goes from the listing straight to the new scope.
AfterReadDirNoCancel(ok) == IF ok THEN "newctx" ELSE "unlock"

\* "if err != nil { log; return }": where onEvent goes after os.ReadDir.
AfterReadDir(ok) == IF ok THEN "cancel" ELSE "unlock"

\* infos, err := os.ReadDir(o.exesDir); on an error, log and return.
OnEventReadDir(h) ==
    /\ handler[h].pc = "readdir"
    /\ \E ok \in BOOLEAN :
          handler' = [handler EXCEPT ![h] =
              [@ EXCEPT !.pc = AfterReadDir(ok),
                        !.infos = IF ok THEN Listing ELSE <<>>,
                        !.err = ~ok]]
    /\ UNCHANGED <<mu, stopChildrenFn, nGen, cancelled, budget, onDisk, run, cap>>

\* A dispatcher that never calls the stored cancel function.
HasPrevNever == FALSE

\* "o.stopChildrenFn != nil"
HasPrev == stopChildrenFn # 0

\* if o.stopChildrenFn != nil { o.stopChildrenFn(...) }
OnEventCancelPrev(h) ==
    /\ handler[h].pc = "cancel"
    /\ cancelled' = IF HasPrev
                    THEN [cancelled EXCEPT ![stopChildrenFn] = TRUE]
                    ELSE cancelled
    /\ handler' = [handler EXCEPT ![h].pc = "newctx"]
    /\ UNCHANGED <<mu, stopChildrenFn, nGen, budget, onDisk, run, cap>>

\* A dispatcher that keeps the handle it had.
StoredHandleKept(g) == stopChildrenFn

\* "o.stopChildrenFn = cancelFn": the handle stored for the new generation g.
StoredHandle(g) == g

\* ctx, cancelFn := context.WithCancelCause(o.ctx); o.stopChildrenFn = cancelFn
OnEventNewCtx(h) ==
    /\ handler[h].pc = "newctx"
    /\ nGen' = nGen + 1
    /\ stopChildrenFn' = StoredHandle(nGen + 1)
    /\ handler' = [handler EXCEPT ![h].pc = "spawn", ![h].ctx = nGen + 1, ![h].idx = 1]
    /\ UNCHANGED <<mu, cancelled, budget, onDisk, run, cap>>

\* A goroutine just started by "go execRetry(ctx, exePath)".
StartedRun == [NoRun EXCEPT !.pc = "stat"]

\* One pass of "for _, info := range infos": skip a directory, else go execRetry.
OnEventSpawn(h) ==
    /\ handler[h].pc = "spawn"
    /\ LET hd == handler[h]
       IN IF hd.idx > Len(hd.infos)
          THEN /\ handler' = [handler EXCEPT ![h].pc = "unlock"]
               /\ run' = run
          ELSE /\ handler' = [handler EXCEPT ![h].idx = hd.idx + 1]
               /\ run' = IF IsDir(hd.infos[hd.idx])
                         THEN run
                         ELSE [run EXCEPT ![<<hd.ctx, hd.infos[hd.idx]>>] = StartedRun]
    /\ UNCHANGED <<mu, stopChildrenFn, nGen, cancelled, budget, onDisk, cap>>

\* A dispatcher that waits for the runs it started before it returns.
RunsAwaitedAll(h) == { r \in RunIds : GenOf(r) = handler[h].ctx }

\* "go execRetry(ctx, exePath)": the runs onEvent waits for before it returns.
RunsAwaited(h) == {}

\* The deferred o.mu.Unlock() and the return.
OnEventUnlock(h) ==
    /\ handler[h].pc = "unlock"
    /\ \A r \in RunsAwaited(h) : run[r].pc \in {"none", "stopped"}
    /\ mu' = 0
    /\ handler' = [handler EXCEPT ![h] = IdleHandler]
    /\ UNCHANGED <<stopChildrenFn, nGen, cancelled, budget, onDisk, run, cap>>

----------------------------------------------------------------------------
(* execRetry and execOnce, one goroutine per run *)

RunFrame == <<mu, stopChildrenFn, nGen, cancelled, budget, handler, onDisk, cap>>

\* A loop that checks the path before its first attempt only.
StatPassesOnRetry(rr, exists) == exists \/ rr.retried

\* "if err != nil { log; return err }" after os.Stat: whether the pass goes on.
StatPasses(rr, exists) == exists

\* _, err := os.Stat(exePath): the top of every pass of the loop.
ExecRetryStat(r) ==
    /\ run[r].pc = "stat"
    /\ run' = [run EXCEPT ![r] =
          IF StatPasses(run[r], onDisk[PathOf(r)])
          THEN [@ EXCEPT !.pc = "gate"]
          ELSE [@ EXCEPT !.pc = "stopped", !.result = "stat"]]
    /\ UNCHANGED RunFrame

\* The helpers' results a query can see: a helper started under a scope that
\* is already done fails (exec.CommandContext).
HelperResultsFor(r) == { hr \in HelperResults : GenDone(GenOf(r)) => ~hr.ioregOk }

\* What checkIfLocked(ctx) can return to run r now.
OracleAnswers(r) == { checkIfLocked(hr) : hr \in HelperResultsFor(r) }

\* A gate that does not look at isLocked.
GateSwitchIgnoringLock(isLocked, err) == IF err THEN "warn" ELSE "go"

\* A gate that fails closed: an oracle error blocks like a locked screen.
GateSwitchFailClosed(isLocked, err) == IF isLocked \/ err THEN "return" ELSE "go"

\* execOnce's "switch { case isLocked: ... case err != nil: ... }".
GateSwitch(isLocked, err) ==
    IF isLocked THEN "return" ELSE IF err THEN "warn" ELSE "go"

\* execOnce returns e: its locals and its timeout scope end (defer cancelFn).
Returned(rr, e) ==
    [rr EXCEPT !.pc = "eval", !.err = e, !.queried = FALSE, !.isLocked = FALSE,
               !.oerr = FALSE, !.warned = FALSE, !.timedOut = FALSE,
               !.child = "none", !.stalled = FALSE]

\* execOnce up to the gate's switch: return screenLockedErr, or warn and go on.
ExecOnceGate(r) ==
    /\ run[r].pc = "gate"
    /\ IF NeedsUnlock(PathOf(r))
       THEN \E res \in OracleAnswers(r) :
               LET sw == GateSwitch(res.isLocked, res.err)
               IN run' = [run EXCEPT ![r] =
                      IF sw = "return"
                      THEN [Returned(@, "screenLocked") EXCEPT
                               !.queried = TRUE, !.isLocked = res.isLocked,
                               !.oerr = res.err]
                      ELSE [@ EXCEPT !.pc = "start", !.queried = TRUE,
                                     !.isLocked = res.isLocked, !.oerr = res.err,
                                     !.warned = (sw = "warn")]]
       ELSE run' = [run EXCEPT ![r].pc = "start"]
    /\ UNCHANGED RunFrame

\* exe.Run(), Start's first test: a scope already done starts nothing.
ExecOnceStart(r) ==
    /\ run[r].pc = "start"
    /\ run' = [run EXCEPT ![r] =
          IF AttemptDone(r)
          THEN Returned(@, "execFailed")
          ELSE [@ EXCEPT !.pc = "fork"]]
    /\ UNCHANGED RunFrame

\* exe.Run(), Start's fork: the child runs, or the spawn fails.
ExecOnceFork(r) ==
    /\ run[r].pc = "fork"
    /\ \E ok \in BOOLEAN :
          /\ ~onDisk[PathOf(r)] => ~ok
          /\ run' = [run EXCEPT ![r] =
                IF ok
                THEN [@ EXCEPT !.pc = "wait", !.child = "running"]
                ELSE Returned(@, "execFailed")]
    /\ UNCHANGED RunFrame

\* The child has written a line that exeLogger.loop gave up on (the Scanner's
\* ErrTooLong, see LoopScan) and writes on: nothing reads the pipe any more,
\* and the copy of that stream stays in exeLogger.Write.
CopyStalls(r) ==
    /\ run[r].pc = "wait"
    /\ run[r].child = "running"
    /\ ~run[r].stalled
    /\ run' = [run EXCEPT ![r].stalled = TRUE]
    /\ UNCHANGED RunFrame

\* exe.Run() after the child is gone: it returns e once the copies of both
\* streams have ended, and stays in Wait while one is stalled.
RunReturns(rr, e) == IF rr.stalled THEN [rr EXCEPT !.child = "gone"] ELSE Returned(rr, e)

\* The child exits by itself; exe.Run() returns nil for status 0 only.
ChildExit(r) ==
    /\ run[r].pc = "wait"
    /\ run[r].child = "running"
    /\ \E status \in {0, 1} :
          run' = [run EXCEPT ![r] =
              [RunReturns(@, IF status = 0 THEN "nil" ELSE "execFailed")
                  EXCEPT !.exitedZero = (status = 0 /\ ~run[r].stalled)]]
    /\ UNCHANGED RunFrame

\* The 10 minute scope of context.WithTimeoutCause expires.
ExecOnceTimeout(r) ==
    /\ run[r].pc = "wait"
    /\ run[r].child = "running"
    /\ ~run[r].timedOut
    /\ run' = [run EXCEPT ![r].timedOut = TRUE]
    /\ UNCHANGED RunFrame

\* exec's watcher kills the child of a scope that is done; exe.Run() returns an error.
ChildKilled(r) ==
    /\ run[r].pc = "wait"
    /\ run[r].child = "running"
    /\ AttemptDone(r)
    /\ run' = [run EXCEPT ![r] = RunReturns(@, "execFailed")]
    /\ UNCHANGED RunFrame

\* A loop that waits and runs the executable again whatever execOnce returned.
EvalOutcomeRetryOnSuccess(rr, done) == IF done THEN "giveup" ELSE "wait"

\* A loop that gives up after the second failed attempt.
EvalOutcomeMaxRetries(rr, done) ==
    IF rr.err = "nil" THEN "return" ELSE IF done \/ rr.retried THEN "giveup" ELSE "wait"

\* execRetry after execOnce returned err: "return" nil, "giveup" when the
\* scope is done (first select), else "wait" (the second select).
EvalOutcome(rr, done) ==
    IF rr.err = "nil" THEN "return" ELSE IF done THEN "giveup" ELSE "wait"

\* A loop that waits longer after a blocked gate than after a failed child.
WaitForSwapped(err) == IF err = "screenLocked" THEN 10 ELSE 5

\* waitFor := 10 * time.Second, 5 * time.Second for screenLockedErr.
WaitFor(err) == IF err = "screenLocked" THEN 5 ELSE 10

\* execRetry returns: the goroutine ends.
Stopped(rr, why) ==
    [rr EXCEPT !.pc = "stopped", !.result = why, !.err = "nil", !.waitFor = 0,
               !.elapsed = 0, !.queried = FALSE, !.isLocked = FALSE, !.oerr = FALSE]

ExecRetryEvaluate(r) ==
    /\ run[r].pc = "eval"
    /\ LET out == EvalOutcome(run[r], GenDone(GenOf(r)))
       IN run' = [run EXCEPT ![r] =
              IF out = "return" THEN Stopped(@, "success")
              ELSE IF out = "giveup" THEN Stopped(@, "cancelled")
              ELSE [@ EXCEPT !.pc = "backoff", !.waitFor = WaitFor(run[r].err),
                             !.queried = FALSE, !.isLocked = FALSE, !.oerr = FALSE]]
    /\ UNCHANGED RunFrame

\* The second select, case <-ctx.Done().
ExecRetryGiveUp(r) ==
    /\ run[r].pc = "backoff"
    /\ GenDone(GenOf(r))
    /\ run' = [run EXCEPT ![r] = Stopped(@, "cancelled")]
    /\ UNCHANGED RunFrame

\* Time passes while the run is in the second select: waitFor seconds of it.
BackoffTick(r) ==
    /\ run[r].pc = "backoff"
    /\ run[r].elapsed < run[r].waitFor
    /\ run' = [run EXCEPT ![r].elapsed = run[r].waitFor]
    /\ UNCHANGED RunFrame

\* time.After(waitFor): its channel is ready once waitFor has passed.
TimerReady(rr) == rr.elapsed >= rr.waitFor

\* The second select, case <-time.After(waitFor): continue.
ExecRetryTimer(r) ==
    /\ run[r].pc = "backoff"
    /\ TimerReady(run[r])
    /\ run' = [run EXCEPT ![r] =
          [@ EXCEPT !.pc = "stat", !.err = "nil", !.waitFor = 0, !.elapsed = 0,
                    !.retried = TRUE]]
    /\ UNCHANGED RunFrame

----------------------------------------------------------------------------
(* The environment *)

RemoveFile(f) ==
    /\ onDisk[f]
    /\ onDisk' = [onDisk EXCEPT ![f] = FALSE]
    /\ UNCHANGED <<mu, stopChildrenFn, nGen, cancelled, budget, handler, run, cap>>

----------------------------------------------------------------------------

Next ==
    \/ \E h \in Handlers : OnEventCall(h)
    \/ \E h \in Handlers : OnEventLock(h)
    \/ \E h \in Handlers : OnEventReadDir(h)
    \/ \E h \in Handlers : OnEventCancelPrev(h)
    \/ \E h \in Handlers : OnEventNewCtx(h)
    \/ \E h \in Handlers : OnEventSpawn(h)
    \/ \E h \in Handlers : OnEventUnlock(h)
    \/ \E r \in RunIds : ExecRetryStat(r)
    \/ \E r \in RunIds : ExecOnceGate(r)
    \/ \E r \in RunIds : ExecOnceStart(r)
    \/ \E r \in RunIds : ExecOnceFork(r)
    \/ \E r \in RunIds : CopyStalls(r)
    \/ \E r \in RunIds : ChildExit(r)
    \/ \E r \in RunIds : ExecOnceTimeout(r)
    \/ \E r \in RunIds : ChildKilled(r)
    \/ \E r \in RunIds : ExecRetryEvaluate(r)
    \/ \E r \in RunIds : ExecRetryGiveUp(r)
    \/ \E r \in RunIds : BackoffTick(r)
    \/ \E r \in RunIds : ExecRetryTimer(r)
    \/ \E f \in Files : RemoveFile(f)

Spec == Init /\ [][Next]_vars

\* A goroutine that can take its next statement takes it, a timer that is
\* armed fires, and a child exits or is killed once its scope is done. The
\* environment (events, file removals) promises nothing.
RunFairness(r) ==
    /\ WF_vars(ExecRetryStat(r))
    /\ WF_vars(ExecOnceGate(r))
    /\ WF_vars(ExecOnceStart(r))
    /\ WF_vars(ExecOnceFork(r))
    /\ WF_vars(ExecOnceTimeout(r))
    /\ WF_vars(ChildKilled(r))
    /\ WF_vars(ExecRetryEvaluate(r))
    /\ WF_vars(BackoffTick(r))
    /\ WF_vars(ExecRetryTimer(r))

FairSpec == Init /\ [][Next]_vars /\ \A r \in RunIds : RunFairness(r)

----------------------------------------------------------------------------
(* exeLogger: the Output Capture of one child invocation.                   *)
(* execOnce makes two instances, stderr then stdout, each an io.Pipe with a *)
(* goroutine running loop(); exe.Run() copies each of the child's streams   *)
(* into its instance with Write and returns once the child has exited and   *)
(* both copies are done; the deferred Closes then run, stdout's first.      *)

Streams == {"stdout", "stderr"}

Bytes == {"a", "\n"}

\* The longest output a child writes to one stream.
MaxOutput == 3

\* bufio.MaxScanTokenSize, the size the Scanner's buffer grows to (64 * 1024),
\* scaled down to the model's outputs.
MaxScanTokenSize == 2

RECURSIVE SeqsUpTo(_)
SeqsUpTo(n) ==
    IF n = 0 THEN {<<>>}
    ELSE LET shorter == SeqsUpTo(n - 1)
         IN shorter \cup { Append(s, b) : s \in { t \in shorter : Len(t) = n - 1 }, b \in Bytes }

Outputs == SeqsUpTo(MaxOutput)

Prefixes(s) == { SubSeq(s, 1, n) : n \in 0..Len(s) }

\* bytes.IndexByte(data, '\n'): 0 when there is none.
RECURSIVE IndexNewline(_, _)
IndexNewline(data, i) ==
    IF i > Len(data) THEN 0
    ELSE IF data[i] = "\n" THEN i
    ELSE IndexNewline(data, i + 1)

\* bufio's dropCR
dropCR(data) ==
    IF data # <<>> /\ data[Len(data)] = "\r" THEN SubSeq(data, 1, Len(data) - 1) ELSE data

\* bufio.ScanLines(data, atEOF): how far to advance and whether there is a token.
ScanLines(data, atEOF) ==
    LET i == IndexNewline(data, 1)
    IN IF atEOF /\ data = <<>>
       THEN [advance |-> 0, has |-> FALSE, token |-> <<>>]
       ELSE IF i > 0
       THEN [advance |-> i, has |-> TRUE, token |-> dropCR(SubSeq(data, 1, i - 1))]
       ELSE IF atEOF
       THEN [advance |-> Len(data), has |-> TRUE, token |-> dropCR(data)]
       ELSE [advance |-> 0, has |-> FALSE, token |-> <<>>]

\* One exeLogger and the copy into it.
NewStream(out) ==
    [toWrite |-> out,    \* what the child has yet to write to the stream
     copied  |-> <<>>,   \* what exe.Run() has handed to Write so far
     wr      |-> <<>>,   \* the rest of the Write in progress (io.Pipe is unbuffered)
     buf     |-> <<>>,   \* the Scanner's buffered, unscanned bytes
     serr    |-> "none", \* the Scanner's error: none, closed (the Read failed), toolong
     lpc     |-> "scan", \* loop(): in scanner.Scan(), or done
     closed  |-> FALSE,  \* Close() was called
     logged  |-> <<>>]   \* the lines given to log.Printf

\* execOnce from newExeLogger on: the child started and writes, or Start
\* failed and nothing is written.
CapInits ==
    { c \in [xpc : {"run"}, alive : BOOLEAN,
             st : [Streams -> { NewStream(o) : o \in Outputs }]] :
        ~c.alive => \A s \in Streams : c.st[s].toWrite = <<>> }

InitCapture ==
    /\ InitSup
    /\ onDisk = [f \in Files |-> TRUE]
    /\ cap \in CapInits

\* exe.Run()'s copy goroutine reads what the child wrote and calls Write.
CopyWrite(s) ==
    /\ cap.xpc = "run"
    /\ cap.st[s].wr = <<>>
    /\ cap.st[s].toWrite # <<>>
    /\ \E n \in 1..Len(cap.st[s].toWrite) :
          LET chunk == SubSeq(cap.st[s].toWrite, 1, n)
              rest  == SubSeq(cap.st[s].toWrite, n + 1, Len(cap.st[s].toWrite))
          IN cap' = [cap EXCEPT !.st[s].toWrite = rest,
                                !.st[s].wr = chunk,
                                !.st[s].copied = @ \o chunk]
    /\ UNCHANGED supVars

\* The child exits, or is killed with part of its output unwritten.
CapChildEnds ==
    /\ cap.xpc = "run"
    /\ cap.alive
    /\ \E cut \in [Streams -> Outputs] :
          /\ \A s \in Streams : cut[s] \in Prefixes(cap.st[s].toWrite)
          /\ cap' = [cap EXCEPT !.alive = FALSE,
                                !.st = [s \in Streams |-> [cap.st[s] EXCEPT !.toWrite = cut[s]]]]
    /\ UNCHANGED supVars

\* The Scanner's Read from the pipe: it fails once the pipe is closed, and
\* else takes what fits of the Write in progress, blocking while there is none.
LoopRead(s) ==
    LET c == cap.st[s]
        n == IF Len(c.wr) < MaxScanTokenSize - Len(c.buf)
             THEN Len(c.wr) ELSE MaxScanTokenSize - Len(c.buf)
    IN IF c.closed
       THEN cap' = [cap EXCEPT !.st[s].serr = "closed"]
       ELSE /\ c.wr # <<>>
            /\ cap' = [cap EXCEPT !.st[s].buf = @ \o SubSeq(c.wr, 1, n),
                                  !.st[s].wr = SubSeq(c.wr, n + 1, Len(c.wr))]

\* One turn of scanner.Scan() in loop(): a token from the buffer is logged;
\* else an error ends the loop; else a full buffer is ErrTooLong; else Read.
LoopScan(s) ==
    /\ cap.st[s].lpc = "scan"
    /\ LET c   == cap.st[s]
           tok == ScanLines(c.buf, c.serr # "none")
       IN IF c.buf # <<>> \/ c.serr # "none"
          THEN IF tok.has
               THEN cap' = [cap EXCEPT
                              !.st[s].buf = SubSeq(c.buf, tok.advance + 1, Len(c.buf)),
                              !.st[s].logged = Append(@, tok.token)]
               ELSE IF c.serr # "none"
               THEN cap' = [cap EXCEPT !.st[s].lpc = "done", !.st[s].buf = <<>>]
               ELSE IF Len(c.buf) >= MaxScanTokenSize
               THEN cap' = [cap EXCEPT !.st[s].lpc = "done", !.st[s].serr = "toolong"]
               ELSE LoopRead(s)
          ELSE LoopRead(s)
    /\ UNCHANGED supVars

\* exe.Run() returns: the child is gone and both copies have ended.
CapRunReturns ==
    /\ cap.xpc = "run"
    /\ ~cap.alive
    /\ \A s \in Streams : cap.st[s].toWrite = <<>> /\ cap.st[s].wr = <<>>
    /\ cap' = [cap EXCEPT !.xpc = "closeStdout"]
    /\ UNCHANGED supVars

\* A Close that leaves the pipe open.
CloseLeavingPipe(st) == st

\* exeLogger.Close: o.r.Close(); o.w.Close().
Close(st) == [st EXCEPT !.closed = TRUE]

\* The deferred stdout.Close(), then the deferred stderr.Close().
CapClose ==
    /\ cap.xpc \in {"closeStdout", "closeStderr"}
    /\ cap' = IF cap.xpc = "closeStdout"
              THEN [cap EXCEPT !.xpc = "closeStderr", !.st["stdout"] = Close(@)]
              ELSE [cap EXCEPT !.xpc = "returned", !.st["stderr"] = Close(@)]
    /\ UNCHANGED supVars

NextCapture ==
    \/ \E s \in Streams : CopyWrite(s)
    \/ CapChildEnds
    \/ \E s \in Streams : LoopScan(s)
    \/ CapRunReturns
    \/ CapClose

SpecCapture == InitCapture /\ [][NextCapture]_vars

\* The goroutine of loop() runs when it can, and a return of exe.Run() is
\* followed by the deferred calls.
FairCapture ==
    /\ SpecCapture
    /\ \A s \in Streams : WF_vars(LoopScan(s))
    /\ WF_vars(CapClose)

----------------------------------------------------------------------------
(* Claims *)

Started(r) == run[r].pc # "none"

ChildRunning(r) == run[r].child = "running"

\* The generations whose cancellation scope is not cancelled.
ActiveGens == { g \in 1..nGen : ~GenDone(g) }

\* C1: a run of generation g exists only once the generation before it has
\* been cancelled: onEvent calls the stored cancel function before its first
\* "go execRetry", also while a child of the older generation still runs.
C1_CancelBeforeNewRuns ==
    \A r \in RunIds : Started(r) /\ GenOf(r) > 1 => cancelled[GenOf(r) - 1]

\* A child of generation 1 still runs, generation 1 is cancelled, and the run
\* of generation 2 for the same file has been started.
C1_Witness ==
    \E f \in Files :
        /\ ChildRunning(<<1, f>>)
        /\ cancelled[1]
        /\ Started(<<2, f>>)

\* C2 as stated: two generations' children of one file never run at once.
C2_NoOverlap ==
    \A f \in Files : \A g1, g2 \in Gens :
        g1 # g2 => ~(ChildRunning(<<g1, f>>) /\ ChildRunning(<<g2, f>>))

\* C2 amended: when two generations' children of one file run at once, the
\* older generation is already cancelled: its child's termination has been
\* requested, and nothing waits for the child to be gone.
C2_OverlapOnlyWithCancelled ==
    \A f \in Files : \A g1, g2 \in Gens :
        g1 < g2 /\ ChildRunning(<<g1, f>>) /\ ChildRunning(<<g2, f>>) => cancelled[g1]

\* Both generations' children of one file run at once.
C2_Witness ==
    \E f \in Files : ChildRunning(<<1, f>>) /\ ChildRunning(<<2, f>>)

\* C3: at most one generation is un-cancelled; while a successful onEvent is
\* past its swap, and after it has returned, exactly one is: the newest, the
\* one the stored handle cancels.
C3_OneActiveGeneration ==
    /\ Cardinality(ActiveGens) <= 1
    /\ \A h \in Handlers :
          handler[h].pc = "spawn" \/ (handler[h].pc = "unlock" /\ ~handler[h].err)
             => ActiveGens = {handler[h].ctx} /\ stopChildrenFn = handler[h].ctx
    /\ mu = 0 /\ nGen > 0 => ActiveGens = {nGen} /\ stopChildrenFn = nGen

\* Two successful events have been handled: generation 1 is cancelled and
\* generation 2 is the active one.
C3_Witness ==
    /\ nGen = 2
    /\ mu = 0
    /\ cancelled[1]
    /\ ~cancelled[2]

Gated(r) == NeedsUnlock(PathOf(r))

\* C4: a gated run is in exe.Run() (about to start the child, forking it, or
\* waiting for it) only after this attempt's oracle query answered not locked;
\* an attempt whose query answered locked has returned screenLockedErr with no
\* child; an attempt whose query answered unlocked or failed is in exe.Run().
C4_NoSpawnWhileLocked ==
    \A r \in RunIds : Gated(r) =>
        /\ run[r].pc \in {"start", "fork", "wait"} \/ ChildRunning(r)
              => run[r].queried /\ ~run[r].isLocked
        /\ run[r].queried /\ run[r].isLocked
              => run[r].pc = "eval" /\ run[r].err = "screenLocked" /\ ~ChildRunning(r)
        /\ run[r].queried /\ ~run[r].isLocked
              => run[r].pc \in {"start", "fork", "wait"}

\* A gated run, in an attempt after a failed one, got the answer "not locked"
\* and runs its child.
C4_Witness ==
    \E r \in RunIds :
        /\ Gated(r)
        /\ run[r].retried
        /\ run[r].queried /\ ~run[r].isLocked /\ ~run[r].oerr
        /\ ChildRunning(r)

\* C5: an attempt whose oracle query failed has logged the warning and is in
\* exe.Run(): the error sets no attempt error, and no wait or retry follows
\* from it.
C5_FailOpen ==
    \A r \in RunIds :
        run[r].queried /\ run[r].oerr
           => /\ run[r].warned
              /\ ~run[r].isLocked
              /\ run[r].pc \in {"start", "fork", "wait"}
              /\ run[r].err = "nil"

\* The oracle failed in a first attempt and the gated child runs.
C5_Witness ==
    \E r \in RunIds :
        /\ Gated(r)
        /\ run[r].oerr /\ run[r].warned
        /\ ~run[r].retried
        /\ ChildRunning(r)

C7_StatBeforeEveryAttempt ==
    [][\A r \in RunIds :
          /\ run[r].pc = "stat" /\ run'[r].pc # "stat"
                => IF onDisk[PathOf(r)]
                   THEN run'[r].pc = "gate"
                   ELSE /\ run'[r].pc = "stopped"
                        /\ run'[r].result = "stat"
                        /\ ~ChildRunning(r)'
          /\ run'[r].pc = "gate" /\ run[r].pc # "gate"
                => run[r].pc = "stat" /\ onDisk[PathOf(r)]
          /\ run[r].pc = "stopped" => run'[r] = run[r]]_vars

\* A run that had already made an attempt ended on a failed stat.
C7_Witness ==
    \E r \in RunIds :
        /\ run[r].pc = "stopped"
        /\ run[r].result = "stat"
        /\ run[r].retried

\* C10: the step of onEvent that sees os.ReadDir fail, and the return that
\* follows it, leave the handle, the generations and every run as they were.
C10_ListingFailureDropsEvent ==
    [][\A h \in Handlers :
          /\ handler[h].pc = "readdir" /\ handler'[h].err
                => /\ handler'[h].pc = "unlock"
                   /\ UNCHANGED <<stopChildrenFn, nGen, cancelled, run>>
          /\ handler[h].err /\ handler'[h] # handler[h]
                => /\ handler'[h] = IdleHandler
                   /\ mu' = 0
                   /\ UNCHANGED <<stopChildrenFn, nGen, cancelled, run>>]_vars

\* A listing failed while the previous generation, un-cancelled, has a child
\* running.
C10_Witness ==
    \E h \in Handlers : \E r \in RunIds :
        /\ handler[h].err
        /\ GenOf(r) = stopChildrenFn
        /\ ~cancelled[GenOf(r)]
        /\ ChildRunning(r)

\* An attempt of run r has failed: execOnce returned an error, or the run is
\* in the wait that follows.
Failed(r) == (run[r].pc = "eval" /\ run[r].err # "nil") \/ run[r].pc = "backoff"

RECURSIVE LinesOf(_)
LinesOf(data) ==
    LET i == IndexNewline(data, 1)
    IN IF data = <<>> THEN <<>>
       ELSE IF i = 0 THEN <<data>>
       ELSE <<SubSeq(data, 1, i - 1)>> \o LinesOf(SubSeq(data, i + 1, Len(data)))

\* C9 as stated: once the loop of a stream has ended, the lines it logged are
\* the lines the child wrote to the stream, each once and in order.
C9_EveryLineForwardedOnce ==
    \A s \in Streams :
        cap.xpc # "none" /\ cap.st[s].lpc = "done"
           => cap.st[s].logged = LinesOf(cap.st[s].copied \o cap.st[s].toWrite)

\* Handler h is in onEvent's critical section, between Lock and Unlock.
InCritical(h) == handler[h].pc \in {"readdir", "cancel", "newctx", "spawn", "unlock"}

\* C11: the critical sections of two onEvent invocations never interleave: at
\* most one handler is between Lock and Unlock, and it is the one holding
\* o.mu; the handle is written and the cancel function called only by that
\* handler; the handle names the newest generation; and every generation but
\* the newest has been cancelled, each by the event that then created the
\* next one, so that no cancel function is lost.
C11_SerializedEvents ==
    /\ [](\A h1, h2 \in Handlers : InCritical(h1) /\ InCritical(h2) => h1 = h2)
    /\ [](\A h \in Handlers : InCritical(h) <=> mu = h)
    /\ [](nGen > 0 => stopChildrenFn = nGen)
    /\ [](\A g \in 1..nGen : g < nGen => cancelled[g])
    /\ [][\A g \in Gens : cancelled'[g] /\ ~cancelled[g]
              => /\ g = nGen
                 /\ \E h \in Handlers :
                       mu = h /\ handler[h].pc = "cancel" /\ handler'[h].pc = "newctx"]_vars
    /\ [][stopChildrenFn' # stopChildrenFn
              => \E h \in Handlers : mu = h /\ handler[h].pc = "newctx"]_vars

\* One invocation waits for o.mu while another, which has stored the first
\* generation's cancel function, starts that generation's runs.
C11_Witness ==
    \E h1, h2 \in Handlers :
        /\ handler[h1].pc = "lock"
        /\ handler[h2].pc = "spawn"
        /\ mu = h2
        /\ stopChildrenFn = handler[h2].ctx

\* C12 as stated: once a generation is cancelled, each of its runs leaves its
\* loop, from the wait after a failure, from the wait after a blocked gate and
\* from exe.Run() alike.
C12_CancelledRunStops ==
    \A r \in RunIds : (Started(r) /\ GenDone(GenOf(r))) ~> (run[r].pc = "stopped")

\* C13: the scope of a generation becomes done only in the step in which an
\* onEvent calls the stored cancel function, which is that generation's and
\* the newest there is; the step ends no other generation's scope and changes
\* no run. The scope under which an onEvent starts its runs is not done, and a
\* started generation's scope is done only once a later event has cancelled it.
C13_CancelLeavesNextGeneration ==
    /\ [][\A g \in Gens :
              GenDone(g)' /\ ~GenDone(g)
                 => /\ g = stopChildrenFn
                    /\ g = nGen
                    /\ \E h \in Handlers : mu = h /\ handler[h].pc = "cancel"
                    /\ \A g2 \in Gens \ {g} : GenDone(g2)' = GenDone(g2)
                    /\ run' = run]_vars
    /\ [](\A h \in Handlers : handler[h].pc = "spawn" => ~GenDone(handler[h].ctx))
    /\ [](\A r \in RunIds :
             Started(r) /\ GenDone(GenOf(r))
                => GenOf(r) < nGen \/ \E h \in Handlers : handler[h].pc = "newctx")

\* Generation 1 is cancelled and a run of it has given up, while a child of
\* generation 2, started by the event that cancelled generation 1, runs under
\* a scope that is not done.
C13_Witness ==
    \E f, f2 \in Files :
        /\ GenDone(1)
        /\ run[<<1, f>>].pc = "stopped" /\ run[<<1, f>>].result = "cancelled"
        /\ ChildRunning(<<2, f2>>)
        /\ ~GenDone(2)

\* C14: a run enters the wait only from a failed attempt, with waitFor 5 when
\* the attempt returned screenLockedErr and 10 for any other error, whatever
\* the number of attempts before it; waitFor stays as it is during the wait;
\* and the next pass of the loop begins only from the wait, once waitFor
\* seconds have passed in it.
C14_FixedBackoff ==
    /\ [](\A r \in RunIds :
             run[r].pc = "backoff"
                => /\ run[r].err # "nil"
                   /\ run[r].waitFor = (IF run[r].err = "screenLocked" THEN 5 ELSE 10)
                   /\ run[r].elapsed <= run[r].waitFor)
    /\ [][\A r \in RunIds :
              /\ run[r].pc # "backoff" /\ run'[r].pc = "backoff"
                    => run[r].pc = "eval" /\ run'[r].elapsed = 0
              /\ run[r].pc = "backoff" /\ run'[r].pc = "backoff"
                    => run'[r].waitFor = run[r].waitFor /\ run'[r].err = run[r].err
              /\ run[r].pc = "backoff" /\ run'[r].pc = "stat"
                    => run[r].elapsed >= run[r].waitFor
              /\ run[r].pc # "stat" /\ run'[r].pc = "stat"
                    => run[r].pc \in {"none", "backoff"}]_vars

\* A run that has already waited once waits again: after a blocked gate with
\* 5 seconds to go, or after a failed child with 10.
C14_Witness ==
    /\ \E r \in RunIds :
          run[r].pc = "backoff" /\ run[r].retried /\ run[r].err = "screenLocked"
             /\ run[r].waitFor = 5 /\ run[r].elapsed = 0
    /\ \E r \in RunIds :
          run[r].pc = "backoff" /\ run[r].retried /\ run[r].err = "execFailed"
             /\ run[r].waitFor = 10 /\ run[r].elapsed = 10

\* C15: an onEvent that has gone through its loop has started one run for
\* each file of its listing and none for a directory, and its return waits
\* for none of them: whatever the runs are doing, the handler holding o.mu can
\* take its next statement, a handler that finds o.mu free can lock it, and a
\* run that is not itself in a wait or in exe.Run() can take its own next
\* statement whatever its siblings are blocked on.
C15_RunsIndependent ==
    /\ \A h \in Handlers :
          /\ handler[h].pc = "lock" /\ mu = 0 => ENABLED OnEventLock(h)
          /\ handler[h].pc = "readdir" => ENABLED OnEventReadDir(h)
          /\ handler[h].pc = "cancel" => ENABLED OnEventCancelPrev(h)
          /\ handler[h].pc = "newctx" => ENABLED OnEventNewCtx(h)
          /\ handler[h].pc = "spawn" => ENABLED OnEventSpawn(h)
          /\ handler[h].pc = "unlock" => ENABLED OnEventUnlock(h)
          /\ handler[h].pc = "unlock" /\ ~handler[h].err
                => \A e \in {FileA, FileB, SubDir} :
                      (e \in Files /\ Started(<<handler[h].ctx, e>>))
                         <=> (Contains(handler[h].infos, e) /\ ~IsDir(e))
    /\ \A r \in RunIds :
          /\ run[r].pc = "stat" => ENABLED ExecRetryStat(r)
          /\ run[r].pc = "gate" => ENABLED ExecOnceGate(r)
          /\ run[r].pc = "start" => ENABLED ExecOnceStart(r)
          /\ run[r].pc = "fork" => ENABLED ExecOnceFork(r)
          /\ run[r].pc = "eval" => ENABLED ExecRetryEvaluate(r)

\* The event has been handled and o.mu is free while one run of the
\* generation is in exe.Run() with its child running and its sibling, after
\* an earlier attempt, waits for a locked screen.
C15_Witness ==
    \E g \in Gens :
        /\ mu = 0
        /\ \A h \in Handlers : handler[h].pc = "idle"
        /\ ChildRunning(<<g, FileA>>)
        /\ ~GenDone(g)
        /\ run[<<g, FileB>>].pc = "backoff"
        /\ run[<<g, FileB>>].retried
        /\ run[<<g, FileB>>].err = "screenLocked"

\* C16 as stated: the timeout belongs to one attempt: it expires only while
\* the run is in exe.Run(), in a step that cancels no generation and changes
\* no other run, and every attempt enters exe.Run() with a timeout that has
\* not expired. The child of an attempt can be killed exactly when the
\* generation's scope is done or the timeout has expired, and then it does
\* not go on running. A timed-out attempt returns to execRetry, with nil only
\* after a zero exit, and unless the generation is cancelled its error leads
\* to the 10 second wait before the next attempt, not to the end of the run.
C16_TimeoutPerAttempt ==
    /\ [](\A r \in RunIds : run[r].timedOut => run[r].pc = "wait")
    /\ [](\A r \in RunIds :
             run[r].pc = "wait" /\ ChildRunning(r)
                => (ENABLED ChildKilled(r) <=> (GenDone(GenOf(r)) \/ run[r].timedOut)))
    /\ [][\A r \in RunIds :
              /\ ~run[r].timedOut /\ run'[r].timedOut
                    => /\ cancelled' = cancelled
                       /\ run[r].pc = "wait" /\ run'[r].pc = "wait"
                       /\ \A r2 \in RunIds \ {r} : run'[r2] = run[r2]
              /\ run[r].pc # "wait" /\ run'[r].pc = "wait" => ~run'[r].timedOut
              /\ run[r].pc = "wait" /\ run[r].timedOut /\ run'[r].pc # "wait"
                    => /\ run'[r].pc = "eval"
                       /\ run'[r].err \in {"nil", "execFailed"}
                       /\ run'[r].err = "nil" => run'[r].exitedZero
              /\ run[r].pc = "eval" /\ run[r].err = "execFailed"
                    /\ ~GenDone(GenOf(r)) /\ run'[r] # run[r]
                    => run'[r].pc = "backoff" /\ run'[r].waitFor = 10]_vars
    /\ \A r \in RunIds : (ChildRunning(r) /\ AttemptDone(r)) ~> ~ChildRunning(r)
    /\ \A r \in RunIds :
          run[r].timedOut
             ~> \/ run[r].pc = "backoff" /\ run[r].waitFor = 10
                \/ GenDone(GenOf(r))
                \/ run[r].exitedZero

\* C17: when execOnce has returned from exe.Run(), whatever ended the child,
\* both exeLoggers are closed, by the deferred calls and not before; and the
\* loop of each then ends: none stays in its Read of the pipe.
C17_CapturesClosed ==
    /\ [](cap.xpc = "returned" => \A s \in Streams : cap.st[s].closed)
    /\ [](\A s \in Streams :
             cap.st[s].closed => cap.xpc \in {"closeStderr", "returned"})
    /\ (cap.xpc \in {"closeStdout", "closeStderr"}) ~> (cap.xpc = "returned")
    /\ (cap.xpc = "returned") ~> (\A s \in Streams : cap.st[s].lpc = "done")

\* execOnce has returned after its child was killed in the middle of a line
\* of stdout: the Close ended the loop, which logged the part of the line that
\* was copied, and the loop of stderr, with nothing to read, has ended too.
C17_Witness ==
    /\ cap.xpc = "returned"
    /\ \A s \in Streams : cap.st[s].lpc = "done" /\ cap.st[s].serr = "closed"
    /\ cap.st["stdout"].copied = <<"a">>
    /\ cap.st["stdout"].logged = <<(<<"a">>)>>
    /\ cap.st["stderr"].copied = <<>>

\* C18 as stated: an onEvent that has made its directory listing has already
\* issued the cancellation of the generation that was there when it began.
C18_CancelNoLaterThanListing ==
    \A h \in Handlers :
        InCritical(h) /\ handler[h].pc # "readdir" /\ HasPrev
           /\ stopChildrenFn # handler[h].ctx
           => cancelled[stopChildrenFn]

\* C18 amended: the listing comes first, while the previous generation is not
\* cancelled; the cancellation is issued next, only by an onEvent whose
\* listing succeeded, and before that onEvent creates the new generation's
\* scope and starts its runs.
C18_CancelAfterListing ==
    /\ [](\A h \in Handlers :
             /\ handler[h].pc = "readdir" /\ HasPrev => ~cancelled[stopChildrenFn]
             /\ handler[h].pc = "newctx" /\ HasPrev => cancelled[stopChildrenFn]
             /\ handler[h].pc = "spawn"
                   => \A g \in 1..(handler[h].ctx - 1) : cancelled[g])
    /\ [][\A h \in Handlers :
              /\ handler[h].pc # "cancel" /\ handler'[h].pc = "cancel"
                    => /\ handler[h].pc = "readdir"
                       /\ ~handler'[h].err
                       /\ handler'[h].infos = Listing
              /\ handler[h].pc = "cancel" /\ handler'[h].pc # "cancel"
                    => /\ handler'[h].pc = "newctx"
                       /\ HasPrev => cancelled'[stopChildrenFn]
                       /\ nGen' = nGen /\ run' = run]_vars
    /\ [][cancelled' # cancelled
              => \E h \in Handlers : mu = h /\ handler[h].pc = "cancel"]_vars

\* An onEvent has its listing and is about to call the cancel function: the
\* previous generation is not yet cancelled and a child of it runs.
C18_Witness ==
    \E h \in Handlers : \E r \in RunIds :
        /\ handler[h].pc = "cancel"
        /\ Len(handler[h].infos) > 0
        /\ GenOf(r) = stopChildrenFn
        /\ ~cancelled[stopChildrenFn]
        /\ ChildRunning(r)

\* The token "true" with at most one white space character on either side.
PaddedTrue ==
    LET pad == {<<>>} \cup { <<c>> : c \in {" ", "\n", "\t"} }
    IN { pre \o <<"true">> \o post : pre \in pad, post \in pad }

\* C19: for every result of the two helpers, checkIfLocked returns (false,
\* error) without plutil when ioreg fails; (false, nil) without plutil when
\* ioreg's output lacks the marker; with the marker it runs plutil and
\* returns (false, error) when plutil fails, and else (true, nil) exactly when
\* plutil's output is the token "true" inside white space, (false, nil) for
\* any other output. It never returns (true, error), and every answer a run
\* has got from it is one of these.
C19_OracleContract ==
    /\ \A hr \in HelperResults :
          LET res    == checkIfLocked(hr)
              marker == \E i \in DOMAIN hr.ioregOutput : hr.ioregOutput[i] = coreGraphicsParam
          IN /\ ~hr.ioregOk
                   => res = [isLocked |-> FALSE, err |-> TRUE, ranPlutil |-> FALSE]
             /\ hr.ioregOk /\ ~marker
                   => res = [isLocked |-> FALSE, err |-> FALSE, ranPlutil |-> FALSE]
             /\ hr.ioregOk /\ marker /\ ~hr.plutilOk
                   => res = [isLocked |-> FALSE, err |-> TRUE, ranPlutil |-> TRUE]
             /\ hr.ioregOk /\ marker /\ hr.plutilOk
                   => res = [isLocked |-> hr.plutilOutput \in PaddedTrue,
                             err |-> FALSE, ranPlutil |-> TRUE]
             /\ ~(res.isLocked /\ res.err)
    /\ \A r \in RunIds :
          run[r].queried
             => /\ ~(run[r].isLocked /\ run[r].oerr)
                /\ \E hr \in HelperResults :
                      /\ checkIfLocked(hr).isLocked = run[r].isLocked
                      /\ checkIfLocked(hr).err = run[r].oerr

\* The oracle has answered each way: one gated run was told "locked" and
\* returned screenLockedErr, another was told "not locked" and runs its child.
C19_Witness ==
    /\ \E r \in RunIds :
          run[r].queried /\ run[r].isLocked /\ ~run[r].oerr
             /\ run[r].err = "screenLocked"
    /\ \E r \in RunIds :
          run[r].queried /\ ~run[r].isLocked /\ ~run[r].oerr /\ ChildRunning(r)

\* C20 as stated: a run whose generation's cancellation has been requested
\* spawns no child from then on.
C20_NoSpawnAfterCancel ==
    [][\A r \in RunIds :
          GenDone(GenOf(r)) /\ ~ChildRunning(r) => ~ChildRunning(r)']_vars

\* C20 amended: once a generation's cancellation has been requested, no run of
\* it gets past the test of the scope at the top of exe.Run()'s Start: an
\* attempt that reaches the test afterwards returns an error and has no
\* child, whether the run came from the timer of its wait, from the os.Stat
\* or from an oracle query. Only a run that had passed the test when the
\* request came can still spawn its child.
C20_NoStartAfterCancel ==
    [][\A r \in RunIds :
          GenDone(GenOf(r))
             => /\ ~ChildRunning(r) /\ ChildRunning(r)' => run[r].pc = "fork"
                /\ run[r].pc # "fork" => run'[r].pc # "fork"
                /\ run[r].pc = "start" /\ run'[r] # run[r]
                      => /\ run'[r].pc = "eval"
                         /\ run'[r].err = "execFailed"
                         /\ ~ChildRunning(r)']_vars

\* The cancellation of its generation has been requested while a run, in an
\* attempt after a wait, is between the test of the scope and the fork.
C20_Witness ==
    \E r \in RunIds :
        /\ GenDone(GenOf(r))
        /\ run[r].pc = "fork"
        /\ run[r].retried

====
